---- MODULE Spec2Model ----
(***************************************************************************)
(* Model of src/main.rs: a command-line run that resolves a channel handle *)
(* to a channel id (fetch_channel_id), pages through the search endpoint   *)
(* (fetch_videos) and writes the accumulated items to a CSV file           *)
(* (write_to_csv).  The upstream service and the file system are the       *)
(* environment: every response and every file-system outcome is chosen     *)
(* nondeterministically from small sets.                                   *)
(***************************************************************************)
EXTENDS Integers, Sequences, FiniteSets, TLC

VARIABLES
    pc,              \* position of main: which await / call comes next
    handle,          \* args.channel_handle, a sequence of characters
    requests,        \* every HTTP request issued so far, in order
    chanResp,        \* the channel-lookup response received (0 or 1 element)
    responses,       \* the search responses received so far, in order
    page_token,      \* fetch_videos: local page_token
    videos,          \* fetch_videos: local accumulator
    resolverResult,  \* what fetch_channel_id returned to main
    listerResult,    \* what fetch_videos returned to main
    writerResult,    \* what write_to_csv returned to main
    file,            \* the output file on disk
    stdout,          \* lines printed by println!, in order
    result           \* how the process ended

vars == <<pc, handle, requests, chanResp, responses, page_token, videos,
          resolverResult, listerResult, writerResult, file, stdout, result>>

\* Largest number of search pages the upstream serves in one run.
MaxPages == 3

\* Longest channel handle tried.
MaxHandleLen == 2

-----------------------------------------------------------------------------
(* JSON values as serde_json::Value sees them.  Indexing a missing key     *)
(* yields Value::Null, which is kept apart here as "absent" so that the    *)
(* difference between a missing field and a null field stays visible.      *)

Absent == [t |-> "absent", v |-> ""]
JNull == [t |-> "null", v |-> ""]
JNum == [t |-> "num", v |-> "7"]
JStr(s) == [t |-> "str", v |-> s]

None == [some |-> FALSE, v |-> ""]
Some(s) == [some |-> TRUE, v |-> s]

\* Value::as_str: Some only for a JSON string.
AsStr(j) == IF j.t = "str" THEN Some(j.v) ELSE None

\* Option::unwrap_or
UnwrapOr(o, d) == IF o.some THEN o.v ELSE d

\* The items member of a response body: missing, or an array.
NoItems == [t |-> "absent", elems |-> <<>>]
Arr(s) == [t |-> "arr", elems |-> s]

\* Value::as_array: Some only for a JSON array.
AsArray(a) == a.t = "arr"

-----------------------------------------------------------------------------
(* Inputs.                                                                 *)

\* Channel handles given on the command line: every string of at most
\* MaxHandleLen characters over a two-letter alphabet.
HandleChars == {"@", "a"}
Handles == UNION { [1..n -> HandleChars] : n \in 0..MaxHandleLen }

\* Result items: the JSON value found at each of the four paths the writer reads.
Item(i, t, d, p) == [videoId |-> i, title |-> t, description |-> d, publishedAt |-> p]
V1 == Item(JStr("v1"), JStr("T1"), JStr("D1"), JStr("P1"))
V2 == Item(Absent, JStr(""), JNum, JStr("P2"))
V3 == Item(JStr("v3"), Absent, JStr("a,b"), JNull)

\* The items member of one search page.
PageItems == { NoItems, Arr(<<>>), Arr(<<V1>>), Arr(<<V2, V3>>) }

\* The nextPageToken member of one search page.
PageTokens == { Absent, JNull, JStr(""), JStr("t1") }

\* A response: the transport outcome, the HTTP status, how the body reads,
\* and the JSON document when the body is JSON.
Response(net, status, body, json) ==
    [net |-> net, status |-> status, body |-> body, json |-> json]

SearchJson(err, items, token) == [hasError |-> err, items |-> items, token |-> token]
ChannelJson(err, items) == [hasError |-> err, items |-> items, token |-> Absent]
Elem(id) == [id |-> id]

ErrorJson == SearchJson(TRUE, NoItems, Absent)

\* Bodies of the channel-lookup endpoint.
ChannelJsons ==
    { ChannelJson(FALSE, NoItems), ChannelJson(FALSE, Arr(<<>>)),
      ChannelJson(TRUE, NoItems), ChannelJson(TRUE, Arr(<<Elem(JStr("UC1"))>>)) }
    \cup { ChannelJson(FALSE, Arr(<<Elem(id)>>)) : id \in {Absent, JNum, JStr("UC1"), JStr("UC2")} }

ChannelResponses ==
    { Response("transport", 0, "unreadable", ErrorJson) }
    \cup { Response("ok", 403, b, ErrorJson) : b \in {"json", "unreadable"} }
    \cup { Response("ok", 404, "json", ChannelJson(FALSE, Arr(<<Elem(JStr("UC1"))>>))) }
    \cup { Response("ok", 200, b, ErrorJson) : b \in {"garbage", "unreadable"} }
    \cup { Response("ok", 200, "json", j) : j \in ChannelJsons }

\* Bodies of the search endpoint.
SearchJsons ==
    { SearchJson(FALSE, i, t) : i \in PageItems, t \in PageTokens }
    \cup { ErrorJson, SearchJson(TRUE, Arr(<<V1>>), JStr("t1")) }

AllSearchResponses ==
    { Response("transport", 0, "unreadable", ErrorJson) }
    \cup { Response("ok", 403, "json", ErrorJson) }
    \cup { Response("ok", 500, "json", SearchJson(FALSE, Arr(<<V1>>), JStr("t1"))) }
    \cup { Response("ok", 200, b, ErrorJson) : b \in {"garbage", "unreadable"} }
    \cup { Response("ok", 200, "json", j) : j \in SearchJsons }

\* A page after which the upstream expects to be asked for another one.
OffersNextPage(r) ==
    /\ r.net = "ok" /\ r.status = 200 /\ r.body = "json"
    /\ ~r.json.hasError
    /\ r.json.token.t = "str"

\* The upstream serves at most MaxPages pages: the last of them offers no next page.
SearchResponses(n) ==
    IF n + 1 < MaxPages THEN AllSearchResponses
    ELSE { r \in AllSearchResponses : ~OffersNextPage(r) }

-----------------------------------------------------------------------------
(* Results and printed lines.                                              *)

\* A Result as main sees it: Pending before the stage returned, then Ok, Err
\* or Panic (the stage unwound instead of returning).
Pending == [tag |-> "Pending", msg |-> "", id |-> "", videos |-> <<>>]
OkId(id) == [tag |-> "Ok", msg |-> "", id |-> id, videos |-> <<>>]
OkVideos(vs) == [tag |-> "Ok", msg |-> "", id |-> "", videos |-> vs]
OkUnit == [tag |-> "Ok", msg |-> "", id |-> "", videos |-> <<>>]
Err(msg) == [tag |-> "Err", msg |-> msg, id |-> "", videos |-> <<>>]
Panic == [tag |-> "Panic", msg |-> "called Option::unwrap() on a None value", id |-> "", videos |-> <<>>]

Line(msg, arg) == [msg |-> msg, arg |-> arg]

\* A status check that lets every status through.
IsSuccess_Always(status) == TRUE

\* StatusCode::is_success
IsSuccess(status) == status \in 200..299

\* json.get("error"): Some whenever the key is there, whatever its value.
GetError(json) == json.hasError

-----------------------------------------------------------------------------
(* fetch_channel_id                                                        *)

\* json["items"][0]["id"]: Null unless items is an array with a first element.
FirstItemId(json) ==
    IF AsArray(json.items) /\ Len(json.items.elems) >= 1
    THEN json.items.elems[1].id
    ELSE Absent

\* unwrap_or_default in place of unwrap.
UnwrapChannelId_OrDefault(o) == OkId(UnwrapOr(o, ""))

\* What .as_str().unwrap() makes of the extracted value.
UnwrapChannelId(o) == IF o.some THEN OkId(o.v) ELSE Panic

\* The function from its one response to what it returns and prints.
FetchChannelId(resp) ==
    IF resp.net # "ok" THEN [res |-> Err("reqwest"), out |-> <<>>]
    ELSE IF ~IsSuccess(resp.status) THEN
        IF resp.body = "unreadable"
        THEN [res |-> Err("reqwest"),
              out |-> <<Line("Unable to fetch Channel ID. API request failed with status", ToString(resp.status))>>]
        ELSE [res |-> Err("API request failed"),
              out |-> <<Line("Unable to fetch Channel ID. API request failed with status", ToString(resp.status)),
                        Line("Response Body", resp.body)>>]
    ELSE IF resp.body # "json" THEN [res |-> Err("reqwest"), out |-> <<>>]
    ELSE IF GetError(resp.json) THEN [res |-> Err("Error"), out |-> <<Line("Error", "")>>]
    ELSE LET r == UnwrapChannelId(AsStr(FirstItemId(resp.json)))
         IN [res |-> r,
             out |-> IF r.tag = "Ok" THEN <<Line("Channel ID", r.id)>> ELSE <<>>]

-----------------------------------------------------------------------------
(* fetch_videos                                                            *)

\* The new page put in front of the accumulator.
Extend_Prepend(vs, items) == IF AsArray(items) THEN items.elems \o vs ELSE vs

\* videos.extend(items.clone()) when items is an array, nothing otherwise.
Extend(vs, items) == IF AsArray(items) THEN vs \o items.elems ELSE vs

\* An empty token taken for the end of the listing.
NextPageToken_NonEmpty(json) ==
    IF json.token.t = "str" /\ json.token.v # "" THEN Some(json.token.v) ELSE None

\* A loop without its break: a missing token is read as the empty one.
NextPageToken_NoBreak(json) == Some(UnwrapOr(AsStr(json.token), ""))

\* json["nextPageToken"].as_str()
NextPageToken(json) == AsStr(json.token)

\* The error a failing page makes the function return, None for a good page.
PageFailure(resp) ==
    IF resp.net # "ok" THEN Some("reqwest")
    ELSE IF ~IsSuccess(resp.status) THEN Some("API request failed")
    ELSE IF resp.body # "json" THEN Some("reqwest")
    ELSE IF GetError(resp.json) THEN Some("Error")
    ELSE None

\* The pages gathered so far returned in place of the error.
FailWith_Salvage(msg, vs) == OkVideos(vs)

\* What the function returns when a page failed: the error alone.
FailWith(msg, vs) == Err(msg)

\* Lines the loop body prints for one response.
PageOutput(resp) ==
    IF resp.net = "ok" /\ ~IsSuccess(resp.status)
    THEN <<Line("Unable to fetch videos. API request failed with status", ToString(resp.status))>>
    ELSE IF resp.net = "ok" /\ resp.body = "json" /\ GetError(resp.json)
    THEN <<Line("Error", "")>>
    ELSE <<>>

-----------------------------------------------------------------------------
(* write_to_csv                                                            *)

Header == <<"Video ID", "Title", "Description", "Published At">>

\* handle.replace("@", "")
RemoveAt(h) == SelectSeq(h, LAMBDA c : c # "@")

\* format!("{}.csv", ...)
FileName(h) == RemoveAt(h) \o <<".csv">>

\* A placeholder written for a field that is no string.
Cell_Placeholder(j) == UnwrapOr(AsStr(j), "N/A")

\* One cell: .as_str().unwrap_or("")
Cell(j) == UnwrapOr(AsStr(j), "")

\* The record written for one item.
Row(video) ==
    <<Cell(video.videoId), Cell(video.title), Cell(video.description), Cell(video.publishedAt)>>

Rows(vs) == [i \in 1..Len(vs) |-> Row(vs[i])]

\* Everything the function writes when nothing fails.
Records(vs) == <<Header>> \o Rows(vs)

NoFile == [exists |-> FALSE, name |-> <<>>, rows |-> <<>>]

\* What the file system may do to one call: let it through, refuse to create
\* the file, or fail a write or the flush after fs.written records reached disk.
FsOutcomes(vs) ==
    { [kind |-> "ok", written |-> Len(vs) + 1], [kind |-> "create_fail", written |-> 0] }
    \cup { [kind |-> "io_fail", written |-> k] : k \in {0, Len(vs)} }

WriteToCsv(h, vs, fs) ==
    IF fs.kind = "create_fail" THEN [res |-> Err("io"), file |-> NoFile]
    ELSE IF fs.kind = "io_fail"
    THEN [res |-> Err("io"),
          file |-> [exists |-> TRUE, name |-> FileName(h), rows |-> SubSeq(Records(vs), 1, fs.written)]]
    ELSE [res |-> OkUnit,
          file |-> [exists |-> TRUE, name |-> FileName(h), rows |-> Records(vs)]]

-----------------------------------------------------------------------------
(* main                                                                    *)

ChannelRequest(h) == [ep |-> "channels", forHandle |-> h, channelId |-> "", pageToken |-> ""]
SearchRequest(id, token) == [ep |-> "search", forHandle |-> <<>>, channelId |-> id, pageToken |-> token]

SearchRequests == SelectSeq(requests, LAMBDA r : r.ep = "search")

\* main without its emptiness check.
SkipsWriter_Never(vs) == FALSE

\* videos.is_empty(): main leaves the writer out.
SkipsWriter(vs) == vs = <<>>

\* The value main returns after the Err arm of its match.
AfterListerError == "ok"

Init ==
    /\ pc = "resolve_send"
    /\ handle \in Handles
    /\ requests = <<>>
    /\ chanResp = <<>>
    /\ responses = <<>>
    /\ page_token = ""
    /\ videos = <<>>
    /\ resolverResult = Pending
    /\ listerResult = Pending
    /\ writerResult = Pending
    /\ file = NoFile
    /\ stdout = <<>>
    /\ result = "running"

\* fetch_channel_id up to its first await: the request goes out.
ResolverSend ==
    /\ pc = "resolve_send"
    /\ requests' = Append(requests, ChannelRequest(handle))
    /\ pc' = "resolve_wait"
    /\ UNCHANGED <<handle, chanResp, responses, page_token, videos, resolverResult,
                   listerResult, writerResult, file, stdout, result>>

\* The rest of fetch_channel_id, and main's ? on its result.
ResolverRecv ==
    /\ pc = "resolve_wait"
    /\ \E resp \in ChannelResponses :
         LET r == FetchChannelId(resp) IN
         /\ chanResp' = <<resp>>
         /\ resolverResult' = r.res
         /\ stdout' = stdout \o r.out
         /\ pc' = IF r.res.tag = "Ok" THEN "list_send" ELSE "done"
         /\ result' = CASE r.res.tag = "Ok" -> result
                        [] r.res.tag = "Err" -> "err"
                        [] OTHER -> "panic"
    /\ UNCHANGED <<handle, requests, responses, page_token, videos,
                   listerResult, writerResult, file>>

\* The top of the loop in fetch_videos: the request for the current token.
ListerSend ==
    /\ pc = "list_send"
    /\ Len(SearchRequests) < MaxPages
    /\ requests' = Append(requests, SearchRequest(resolverResult.id, page_token))
    /\ pc' = "list_wait"
    /\ UNCHANGED <<handle, chanResp, responses, page_token, videos, resolverResult,
                   listerResult, writerResult, file, stdout, result>>

\* main once fetch_videos returned r, up to the call of write_to_csv.
\* In the Err arm the second println! needs a reqwest::Error that carries a
\* status; the errors of send() and json() carry none, so it prints nothing.
MainAfterLister(r, out) ==
    IF r.tag = "Ok" THEN
        /\ stdout' = stdout \o out \o <<Line("Fetched videos", ToString(Len(r.videos)))>>
                       \o (IF SkipsWriter(r.videos) THEN <<Line("No videos found", "")>> ELSE <<>>)
        /\ pc' = IF SkipsWriter(r.videos) THEN "done" ELSE "write"
        /\ result' = IF SkipsWriter(r.videos) THEN "ok" ELSE result
    ELSE
        /\ stdout' = stdout \o out \o <<Line("Error fetching videos", r.msg)>>
        /\ pc' = "done"
        /\ result' = AfterListerError

\* The rest of one loop iteration, and main's match when the function returns.
ListerRecv ==
    /\ pc = "list_wait"
    /\ \E resp \in SearchResponses(Len(responses)) :
         LET failure == PageFailure(resp)
             vs == Extend(videos, resp.json.items)
             next == NextPageToken(resp.json)
         IN
         /\ responses' = Append(responses, resp)
         /\ IF failure.some THEN
                /\ listerResult' = FailWith(failure.v, videos)
                /\ videos' = <<>>
                /\ page_token' = page_token
                /\ MainAfterLister(FailWith(failure.v, videos), PageOutput(resp))
            ELSE IF next.some THEN
                /\ videos' = vs
                /\ page_token' = next.v
                /\ pc' = "list_send"
                /\ UNCHANGED <<listerResult, stdout, result>>
            ELSE
                /\ videos' = vs
                /\ page_token' = page_token
                /\ listerResult' = OkVideos(vs)
                /\ MainAfterLister(OkVideos(vs), <<>>)
    /\ UNCHANGED <<handle, requests, chanResp, resolverResult, writerResult, file>>

\* write_to_csv, and main's ? on its result.
WriteStep ==
    /\ pc = "write"
    /\ \E fs \in FsOutcomes(listerResult.videos) :
         LET w == WriteToCsv(handle, listerResult.videos, fs) IN
         /\ writerResult' = w.res
         /\ file' = w.file
         /\ stdout' = IF w.res.tag = "Ok"
                      THEN Append(stdout, Line("Videos written to a CSV file successfully", ""))
                      ELSE stdout
         /\ result' = IF w.res.tag = "Ok" THEN "ok" ELSE "err"
    /\ pc' = "done"
    /\ UNCHANGED <<handle, requests, chanResp, responses, page_token, videos,
                   resolverResult, listerResult>>

Next == ResolverSend \/ ResolverRecv \/ ListerSend \/ ListerRecv \/ WriteStep

Spec == Init /\ [][Next]_vars

\* Every request is answered and every step that can run does.
LiveSpec == Init /\ [][Next]_vars /\ WF_vars(Next)

-----------------------------------------------------------------------------
(* Vocabulary of the properties.                                           *)

\* A response that is successful and carries no error payload.
GoodPage(r) == r.net = "ok" /\ r.status \in 200..299 /\ r.body = "json" /\ ~r.json.hasError

\* A response with a non-success status, or whose JSON body has an error member.
FailedPage(r) ==
    r.net = "ok" /\ (r.status \notin 200..299 \/ (r.body = "json" /\ r.json.hasError))

\* The items array of a page, empty when the page has none.
ItemsOf(r) == IF r.json.items.t = "arr" THEN r.json.items.elems ELSE <<>>

RECURSIVE Concat(_)
Concat(pages) ==
    IF pages = <<>> THEN <<>>
    ELSE Concat(SubSeq(pages, 1, Len(pages) - 1)) \o ItemsOf(pages[Len(pages)])

\* The responses so far are N >= 1 good pages, each but the last carrying a
\* page token (a string, as the search interface gives it), the last none.
CompleteListing ==
    /\ Len(responses) >= 1
    /\ \A k \in 1..Len(responses) : GoodPage(responses[k])
    /\ \A k \in 1..(Len(responses) - 1) : responses[k].json.token.t = "str"
    /\ responses[Len(responses)].json.token.t = "absent"

\* The JSON value an item holds for column c of the file.
Field(video, c) ==
    CASE c = 1 -> video.videoId
      [] c = 2 -> video.title
      [] c = 3 -> video.description
      [] OTHER -> video.publishedAt

StripLeadingAt(h) == IF h # <<>> /\ h[1] = "@" THEN Tail(h) ELSE h

StageFailed == \E r \in {resolverResult, listerResult, writerResult} : r.tag = "Err"
Crashed == resolverResult.tag = "Panic"
Reported == result = "err" \/ \E i \in 1..Len(stdout) : stdout[i].msg = "Error fetching videos"

-----------------------------------------------------------------------------
(* Properties.                                                             *)

\* C1: after N >= 1 good pages, all but the last with a page token and the last
\* with none, fetch_videos has issued exactly N requests and returned exactly the
\* concatenation of the pages' items arrays in arrival order.
C1_Concatenation ==
    CompleteListing =>
        /\ Len(SearchRequests) = Len(responses)
        /\ listerResult.tag = "Ok"
        /\ listerResult.videos = Concat(responses)

C1_Witness ==
    /\ CompleteListing
    /\ Len(SearchRequests) = 3
    /\ listerResult.videos = <<V1, V2, V3, V1>>

\* C2 (as amended): when the resolver succeeded and the lister returned zero
\* items, main prints "No videos found", never calls write_to_csv, creates no
\* file and ends with the success result.
C2_NoFileWhenEmpty ==
    (resolverResult.tag = "Ok" /\ listerResult.tag = "Ok" /\ listerResult.videos = <<>>) =>
        /\ pc = "done"
        /\ writerResult.tag = "Pending"
        /\ ~file.exists
        /\ result = "ok"
        /\ stdout[Len(stdout)].msg = "No videos found"

C2_Witness ==
    /\ resolverResult.tag = "Ok" /\ listerResult.tag = "Ok" /\ listerResult.videos = <<>>
    /\ Len(responses) >= 2
    /\ pc = "done"

\* C2 as stated: such a run still produces the file, holding the header row alone.
C2_HeaderOnlyFile ==
    (pc = "done" /\ resolverResult.tag = "Ok" /\ listerResult.tag = "Ok"
       /\ listerResult.videos = <<>>) =>
        (file.exists /\ file.rows = <<Header>>)

\* C3: once a page fails (non-success status or error payload), also after good
\* pages, the caller holds the error alone, no further search request is issued,
\* write_to_csv is not called and no file exists.
C3_ListerFailureWritesNothing ==
    \A k \in 1..Len(responses) :
        FailedPage(responses[k]) =>
            /\ k = Len(responses)
            /\ Len(SearchRequests) = k
            /\ listerResult.tag = "Err"
            /\ listerResult.videos = <<>>
            /\ pc = "done"
            /\ writerResult.tag = "Pending"
            /\ ~file.exists

C3_Witness ==
    /\ Len(responses) = 3
    /\ FailedPage(responses[3])
    /\ ItemsOf(responses[1]) # <<>>
    /\ ItemsOf(responses[2]) # <<>>
    /\ pc = "done"

\* C4: a run in which a stage failed (resolver, lister or writer) never ends with
\* the success result: it ends through the error path with a diagnostic.
C4_FailureEndsInFailure ==
    (pc = "done" /\ (StageFailed \/ Crashed)) => (result \in {"err", "panic"})

\* C5: no search request and no file without a successful resolver result; a
\* channel lookup that fails (non-success status or error payload) ends the run
\* with an error after that single request.
C5_ResolverFirst ==
    /\ (SearchRequests # <<>> \/ file.exists \/ pc \in {"list_send", "list_wait", "write"}) =>
           (resolverResult.tag = "Ok" /\ chanResp # <<>> /\ GoodPage(chanResp[1]))
    /\ (chanResp # <<>> /\ FailedPage(chanResp[1])) =>
           /\ resolverResult.tag = "Err"
           /\ result = "err"
           /\ pc = "done"
           /\ Len(requests) = 1
           /\ ~file.exists

C5_Witness ==
    /\ chanResp # <<>>
    /\ chanResp[1].status = 404
    /\ result = "err"

\* C6: the file name is the handle without one leading @, otherwise unchanged,
\* followed by .csv; an @ further inside the handle stays.
C6_LeadingAtOnly ==
    file.exists => file.name = StripLeadingAt(handle) \o <<".csv">>

\* C7 (as amended): the file holds the header and then one row per item in list
\* order; a cell is the field's value when the field is a JSON string, and is
\* empty when the field is absent or is not a string.
C7_RowsFromStringFields ==
    writerResult.tag = "Ok" =>
        /\ file.exists
        /\ Len(file.rows) = Len(listerResult.videos) + 1
        /\ file.rows[1] = Header
        /\ \A i \in 1..Len(listerResult.videos) : \A c \in 1..4 :
               LET f == Field(listerResult.videos[i], c)
               IN file.rows[i + 1][c] = IF f.t = "str" THEN f.v ELSE ""

C7_Witness ==
    /\ writerResult.tag = "Ok"
    /\ listerResult.videos = <<V1, V2, V3>>

\* C7 as stated: a cell is the field's value whenever the field is present, and
\* is empty exactly when the field is absent.
C7_PresentVerbatim ==
    writerResult.tag = "Ok" =>
        \A i \in 1..Len(listerResult.videos) : \A c \in 1..4 :
            LET f == Field(listerResult.videos[i], c)
            IN /\ f.t # "absent" => file.rows[i + 1][c] = f.v
               /\ file.rows[i + 1][c] = "" <=> f.t = "absent"

\* C8: after a good channel response, fetch_channel_id returns exactly the first
\* element's id when that is a string; otherwise it panics, and no search request
\* and no file write follow.
C8_UncheckedExtraction ==
    (chanResp # <<>> /\ GoodPage(chanResp[1])) =>
        LET items == chanResp[1].json.items
            hasStringId == items.t = "arr" /\ Len(items.elems) >= 1 /\ items.elems[1].id.t = "str"
        IN IF hasStringId
           THEN /\ resolverResult.tag = "Ok"
                /\ resolverResult.id = items.elems[1].id.v
                /\ \A i \in 1..Len(SearchRequests) : SearchRequests[i].channelId = items.elems[1].id.v
           ELSE /\ resolverResult.tag = "Panic"
                /\ result = "panic"
                /\ pc = "done"
                /\ SearchRequests = <<>>
                /\ writerResult.tag = "Pending"
                /\ ~file.exists

C8_Witness ==
    /\ chanResp # <<>> /\ GoodPage(chanResp[1])
    /\ chanResp[1].json.items = Arr(<<>>)
    /\ resolverResult.tag = "Panic"

\* The pagination protocol, with Continues(r) saying which good pages make the
\* loop go on: the first request has the empty token; after a page that
\* continues, exactly one further request follows, carrying that page's token;
\* after a good page that does not, the function has returned and sent nothing more.
Pagination(Continues(_)) ==
    /\ SearchRequests # <<>> => SearchRequests[1].pageToken = ""
    /\ Len(SearchRequests) \in {Len(responses), Len(responses) + 1}
    /\ \A k \in 1..Len(responses) :
           GoodPage(responses[k]) =>
               IF Continues(responses[k])
               THEN /\ listerResult.tag = "Pending" \/ k < Len(responses)
                    /\ IF Len(SearchRequests) > k
                       THEN SearchRequests[k + 1].pageToken = responses[k].json.token.v
                       ELSE pc = "list_send" /\ page_token = responses[k].json.token.v
               ELSE /\ k = Len(responses)
                    /\ Len(SearchRequests) = k
                    /\ listerResult.tag = "Ok"
                    /\ pc \in {"write", "done"}

HasStringToken(r) == r.json.token.t = "str"
HasTokenField(r) == r.json.token.t # "absent"

\* C9 (as amended): the loop goes on exactly after the good pages whose
\* nextPageToken is a JSON string (the empty string included), asking once more
\* with that string; it ends after a good page whose nextPageToken is missing
\* or is not a string.
C9_StringTokenContinues == Pagination(HasStringToken)

C9_Witness ==
    /\ Len(responses) = 3
    /\ responses[1].json.token = JStr("")
    /\ responses[2].json.token = JStr("t1")
    /\ responses[3].json.token = JNull
    /\ GoodPage(responses[3])
    /\ listerResult.tag = "Ok"

\* C9 as stated: the loop goes on after every good page that has the field,
\* whatever its value, and ends only after a page without it.
C9_AnyTokenContinues == Pagination(HasTokenField)

\* C10: when every request is answered and the upstream offers a next page only
\* finitely often, the run ends and stays ended, in exactly one of: success,
\* reported error, crash.
C10_Terminates ==
    <>[](/\ pc = "done"
         /\ Cardinality({ o \in {"success", "error", "crash"} :
                \/ o = "success" /\ result = "ok" /\ ~StageFailed /\ ~Crashed
                \/ o = "error" /\ StageFailed /\ Reported
                \/ o = "crash" /\ Crashed /\ result = "panic" }) = 1)

C10_Witness ==
    /\ pc = "done"
    /\ Len(SearchRequests) = MaxPages
    /\ result = "ok"
    /\ writerResult.tag = "Ok"

====
